---- MODULE Spec2Model ----
(***************************************************************************)
(* Model of the phone number widget of django-formset                      *)
(* (client/django-formset/PhoneNumber.ts): the edit field, the hidden host *)
(* input, the as-you-type formatter, the country picker and its position   *)
(* subscription.  Texts are sequences of one-character strings.            *)
(***************************************************************************)
EXTENDS Integers, Sequences, FiniteSets, TLC

\* ------------------------------------------------------------------ bounds
NumRegions == 3         \* entries of the country catalog
MaxDigits == 2          \* digits a user edit may leave in the edit field
MaxTimers == 1          \* pending zero-delay callbacks of one kind

\* ------------------------------------------------------- texts and helpers
Min(a, b) == IF a <= b THEN a ELSE b

NoCountry == ""

Undefined == <<"undefined">>

Coalesce(v, d) == IF v = Undefined THEN d ELSE v

StartsWith(text, c) == text /= <<>> /\ text[1] = c

DigitChars == <<"1", "2", "3", "4", "5">>

RegionCodes == <<"AA", "BB", "CC", "DD", "EE">>

Digits == {"0"} \cup {DigitChars[i] : i \in 1..Len(DigitChars)}

IsDigit(c) == c \in Digits

CountDigits(text) == Len(SelectSeq(text, IsDigit))

\* ----------------------------------------------------------- the catalog
\* one row per region, in display order: [countryCode, callingCode]
codeCountryMap ==
    [i \in 1..NumRegions |->
        [countryCode |-> RegionCodes[i], callingCode |-> DigitChars[i]]]

RowOfCountry(country) ==
    IF \E i \in 1..NumRegions : codeCountryMap[i].countryCode = country
    THEN CHOOSE i \in 1..NumRegions : codeCountryMap[i].countryCode = country
    ELSE 0

RowOfCallingCode(cc) ==
    IF \E i \in 1..NumRegions : codeCountryMap[i].callingCode = cc
    THEN CHOOSE i \in 1..NumRegions : codeCountryMap[i].callingCode = cc
    ELSE 0

\* -------------------------------------------------- the formatter AsYouType
\* A numbering plan scaled down to one-digit calling codes, one per catalog
\* row; a national significant number is complete with NsnLength digits, it
\* is a mobile number when it starts with "1"; "0" is the trunk prefix of a
\* number in national format.
NsnLength == 1

AsYouType(defaultCountry) ==
    [defaultCountry |-> defaultCountry, international |-> FALSE, digits |-> <<>>]

reset(a) == [a EXCEPT !.international = FALSE, !.digits = <<>>]

FirstSignificant(text) ==
    IF \E i \in 1..Len(text) : text[i] = "+" \/ IsDigit(text[i])
    THEN CHOOSE i \in 1..Len(text) :
            /\ text[i] = "+" \/ IsDigit(text[i])
            /\ \A j \in 1..(i - 1) : ~(text[j] = "+" \/ IsDigit(text[j]))
    ELSE 0

\* input(text): a leading "+" starts an international number if no digit was
\* fed before; every digit of the text is appended; all else is dropped.
input(a, text) ==
    LET first == FirstSignificant(text)
        hasPlus == first > 0 /\ text[first] = "+"
    IN [a EXCEPT !.international = @ \/ (hasPlus /\ a.digits = <<>>),
                 !.digits = @ \o SelectSeq(text, IsDigit)]

callingCode(a) ==
    IF a.international
    THEN IF a.digits /= <<>> /\ RowOfCallingCode(a.digits[1]) /= 0
         THEN a.digits[1] ELSE ""
    ELSE IF RowOfCountry(a.defaultCountry) /= 0
         THEN codeCountryMap[RowOfCountry(a.defaultCountry)].callingCode ELSE ""

nationalSignificantNumber(a) ==
    IF a.international
    THEN IF callingCode(a) /= "" THEN Tail(a.digits) ELSE <<>>
    ELSE IF StartsWith(a.digits, "0") THEN Tail(a.digits) ELSE a.digits

getCountry(a) ==
    IF a.digits = <<>> THEN NoCountry
    ELSE IF a.international
         THEN IF callingCode(a) /= ""
              THEN codeCountryMap[RowOfCallingCode(callingCode(a))].countryCode
              ELSE NoCountry
         ELSE a.defaultCountry

getNumber(a) ==
    LET nsn == nationalSignificantNumber(a)
    IN IF nsn = <<>> \/ callingCode(a) = ""
       THEN [defined |-> FALSE, nationalNumber |-> <<>>, type |-> ""]
       ELSE [defined |-> TRUE, nationalNumber |-> nsn,
             type |-> IF nsn[1] = "1" THEN "MOBILE" ELSE "FIXED_LINE"]

getNumberValue(a) ==
    IF a.digits = <<>> THEN Undefined
    ELSE IF a.international THEN <<"+">> \o a.digits
    ELSE IF callingCode(a) /= ""
         THEN <<"+", callingCode(a)>> \o nationalSignificantNumber(a)
         ELSE Undefined

isValid(a) ==
    /\ getNumber(a).defined
    /\ getCountry(a) /= NoCountry
    /\ Len(nationalSignificantNumber(a)) = NsnLength

\* the text input() returns: "+c nsn" for an international number,
\* "(d) rest" for a national number of the default region
formattedOutput(a) ==
    IF a.international
    THEN IF callingCode(a) /= "" /\ Len(a.digits) > 1
         THEN <<"+", a.digits[1], " ">> \o Tail(a.digits)
         ELSE <<"+">> \o a.digits
    ELSE IF a.defaultCountry /= NoCountry /\ Len(a.digits) > 1
         THEN <<"(", a.digits[1], ")", " ">> \o Tail(a.digits)
         ELSE a.digits

\* ------------------------------------------------------------------ state
VARIABLES
    defaultCountryCode, \* attribute default-country-code, upper case, or NoCountry
    mobileOnly,         \* attribute mobile-only
    editText,           \* editField.innerText: the display text
    caret,              \* start offset of the document selection in editField
    hostValue,          \* inputElement.value: the canonical value of record
    customValidity,     \* message attached by inputElement.setCustomValidity
    asYouType,          \* the formatter
    isOpen,
    isPristine,
    cleanup,            \* the field holds a teardown function
    cleanupCalls,       \* invocations of the teardown function now held:
                        \* 0, 1, or 2 for any larger number
    selected,           \* rows of the picker that carry the class 'selected'
    ariaExpanded,       \* attribute aria-expanded of the text box
    openerFlag,         \* region whose flag the opener shows, or NoCountry
    hasFocus,
    focusClass,         \* the text box carries the class 'focus'
    ariaBusy,           \* editField.ariaBusy
    domFocus,           \* the browser has the focus in editField
    leaked,             \* some subscription was never torn down and the
                        \* field holds its teardown function no more
    caretTimers,        \* pending callbacks of setInternationalCode
    blurTimers,         \* pending callbacks of handleBlur
    notified,           \* events dispatched to inputElement by the last handler
    last,               \* the handler that ran last
    arrowDowns          \* ArrowDown presses in a row since the picker was
                        \* opened with no row highlighted; -1: not counting

config == <<defaultCountryCode, mobileOnly>>

vars == <<defaultCountryCode, mobileOnly, editText, caret, hostValue,
          customValidity, asYouType, isOpen, isPristine, cleanup,
          cleanupCalls, selected, ariaExpanded, openerFlag, hasFocus,
          focusClass, ariaBusy, domFocus, leaked, caretTimers, blurTimers,
          notified, last, arrowDowns>>

\* the widget and its surroundings as one value, as a handler finds them;
\* no event has been dispatched by the handler yet
cur ==
    [editText |-> editText, caret |-> caret, hostValue |-> hostValue,
     customValidity |-> customValidity, asYouType |-> asYouType,
     isOpen |-> isOpen, isPristine |-> isPristine, cleanup |-> cleanup,
     cleanupCalls |-> cleanupCalls, selected |-> selected, ariaExpanded |-> ariaExpanded,
     openerFlag |-> openerFlag, hasFocus |-> hasFocus,
     focusClass |-> focusClass, ariaBusy |-> ariaBusy, domFocus |-> domFocus,
     leaked |-> leaked,
     caretTimers |-> caretTimers, blurTimers |-> blurTimers,
     notified |-> <<>>]

\* the state a handler leaves behind
Becomes(s) ==
    /\ editText' = s.editText
    /\ caret' = s.caret
    /\ hostValue' = s.hostValue
    /\ customValidity' = s.customValidity
    /\ asYouType' = s.asYouType
    /\ isOpen' = s.isOpen
    /\ isPristine' = s.isPristine
    /\ cleanup' = s.cleanup
    /\ cleanupCalls' = s.cleanupCalls
    /\ selected' = s.selected
    /\ ariaExpanded' = s.ariaExpanded
    /\ openerFlag' = s.openerFlag
    /\ hasFocus' = s.hasFocus
    /\ focusClass' = s.focusClass
    /\ ariaBusy' = s.ariaBusy
    /\ domFocus' = s.domFocus
    /\ leaked' = s.leaked
    /\ caretTimers' = s.caretTimers
    /\ blurTimers' = s.blurTimers
    /\ notified' = s.notified
    /\ UNCHANGED config

\* ------------------------------------------------------------- procedures
dispatchEvent(s, type) == [s EXCEPT !.notified = Append(@, type)]

handleFocus(s) ==
    dispatchEvent([s EXCEPT !.ariaBusy = TRUE, !.focusClass = TRUE,
                            !.hasFocus = TRUE], "focus")

\* editField.focus(): the focus event is delivered, synchronously, only
\* when the field did not have the focus
focus(s) ==
    IF s.domFocus THEN s ELSE handleFocus([s EXCEPT !.domFocus = TRUE])

setCaretToEnd(s) ==
    IF s.editText = <<>> THEN s ELSE [s EXCEPT !.caret = Len(s.editText)]

decorateInputField(s, countryCode) == [s EXCEPT !.openerFlag = countryCode]

\* a slip: the rows keep the class 'selected'
deselectNone(s) == s

deselectAll(s) == [s EXCEPT !.selected = {}]

\* lines 251-276 of updateInputField, a being the formatter as line 250
\* left it; s.editText and s.caret are the text and the selection the call
\* finds.  When the formatter returns the empty text the edit field is left
\* without a text node and line 269 throws.
formatInputField(s, a, phoneNumber) ==
    LET seed == defaultCountryCode = NoCountry /\ s.isPristine
        plus == seed /\ ~StartsWith(phoneNumber, "+")
        number == IF plus /\ StartsWith(phoneNumber, "0") THEN <<>> ELSE phoneNumber
        a1 == IF plus THEN input(a, <<"+">>) ELSE a
        s1 == [s EXCEPT !.asYouType = a1,
                        !.isPristine = IF seed THEN FALSE ELSE @]
        s2 == IF plus
              THEN setCaretToEnd([s1 EXCEPT !.editText = formattedOutput(a1)])
              ELSE s1
        caretPosition == IF Len(s2.editText) = s2.caret
                         THEN s2.caret + 1 ELSE s2.caret
        a2 == input(a1, number)
        s3 == [s2 EXCEPT !.asYouType = a2, !.editText = formattedOutput(a2)]
    IN IF s3.editText = <<>>
       THEN [s3 EXCEPT !.caret = 0]
       ELSE dispatchEvent(
              decorateInputField(
                [s3 EXCEPT !.caret = Min(caretPosition, Len(s3.editText)),
                           !.hostValue = Coalesce(getNumberValue(a2), <<>>)],
                getCountry(a2)),
              "input")

\* a slip: the formatter is not reset before it is fed
updateInputFieldNoReset(s, phoneNumber) ==
    formatInputField(s, s.asYouType, phoneNumber)

updateInputField(s, phoneNumber) ==
    formatInputField(s, reset(s.asYouType), phoneNumber)

handleInput(s, innerText, offset) ==
    IF innerText = <<>>
    THEN [s EXCEPT !.editText = <<>>, !.caret = 0, !.isPristine = TRUE]
    ELSE updateInputField([s EXCEPT !.editText = innerText, !.caret = offset],
                          innerText)

\* the subscription whose teardown function the field holds is running
Subscribed(s) == s.cleanup /\ s.cleanupCalls = 0

\* some subscription of autoUpdate is running
Active(s) == s.leaked \/ Subscribed(s)

\* line 217 overwrites the teardown function the field held
openInternationalSelector(s) ==
    LET row == RowOfCountry(getCountry(s.asYouType))
    IN [s EXCEPT !.leaked = Active(s), !.cleanup = TRUE, !.cleanupCalls = 0,
                 !.ariaExpanded = TRUE, !.isOpen = TRUE, !.isPristine = TRUE,
                 !.selected = deselectAll(s).selected
                                \cup (IF row /= 0 THEN {row} ELSE {})]

closeInternationalSelector(s) ==
    [s EXCEPT !.isOpen = FALSE, !.ariaExpanded = FALSE,
              !.cleanupCalls = IF s.cleanup THEN Min(@ + 1, 2) ELSE @]

\* setting innerText replaces the text node, which leaves the selection at
\* offset 0 until the deferred setCaretToEnd runs
setInternationalCode(s, countryCode, code) ==
    LET nationalNumber == getNumber(s.asYouType).nationalNumber
        t == [decorateInputField(s, countryCode) EXCEPT
                 !.editText = <<"+", code>> \o nationalNumber, !.caret = 0]
    IN [focus(t) EXCEPT !.caretTimers = @ + 1]

\* a slip: the first row, whether it is selected or not
FirstRow(s) == Min(1, NumRegions)

FirstSelected(s) ==
    IF s.selected = {} THEN 0
    ELSE CHOOSE i \in s.selected : \A j \in s.selected : i <= j

\* a slip: the row is marked and the others are left as they are
selectElementKeep(s, row) == [s EXCEPT !.selected = @ \cup {row}]

selectElement(s, row) == [deselectAll(s) EXCEPT !.selected = @ \cup {row}]

\* a slip: no wrap-around before the first row
previousElementNoWrap(s) ==
    IF FirstSelected(s) > 1 THEN FirstSelected(s) - 1 ELSE 0

\* lines 170-173: the row before the first selected one, else the last row;
\* 0 when there is none
previousElement(s) ==
    IF FirstSelected(s) > 1 THEN FirstSelected(s) - 1 ELSE NumRegions

\* a slip: no wrap-around after the last row
nextElementNoWrap(s) ==
    IF FirstSelected(s) < NumRegions THEN FirstSelected(s) + 1 ELSE 0

\* lines 180-183: the row after the first selected one, else the first row;
\* 0 when there is none
nextElement(s) ==
    IF FirstSelected(s) /= 0 /\ FirstSelected(s) < NumRegions
    THEN FirstSelected(s) + 1
    ELSE Min(1, NumRegions)

\* a slip: the click on a row returns after the commit
handleClickNoClose(s, target, row) ==
    IF target = "opener" THEN openInternationalSelector(s)
    ELSE IF target = "row"
    THEN setInternationalCode(s, codeCountryMap[row].countryCode,
                              codeCountryMap[row].callingCode)
    ELSE closeInternationalSelector(s)

\* handleClick; target is "opener", "row" (with the row clicked) or "other"
handleClick(s, target, row) ==
    IF target = "opener" THEN openInternationalSelector(s)
    ELSE IF target = "row"
    THEN closeInternationalSelector(
            setInternationalCode(s, codeCountryMap[row].countryCode,
                                 codeCountryMap[row].callingCode))
    ELSE closeInternationalSelector(s)

\* the switch of handleKeypress, lines 156-197
keySwitch(s, key) ==
    IF key = "Enter"
    THEN LET row == FirstSelected(s)
         IN IF row = 0 THEN s
            ELSE setInternationalCode(closeInternationalSelector(s),
                    codeCountryMap[row].countryCode,
                    codeCountryMap[row].callingCode)
    ELSE IF key = "Escape" THEN closeInternationalSelector(s)
    ELSE IF key = "ArrowUp"
    THEN IF previousElement(s) = 0 THEN s
         ELSE selectElement(s, previousElement(s))
    ELSE IF key = "ArrowDown"
    THEN IF nextElement(s) = 0 THEN s
         ELSE selectElement(s, nextElement(s))
    ELSE IF key = "+" \/ IsDigit(key)
    THEN updateInputField(focus(closeInternationalSelector(s)), <<key>>)
    ELSE s

\* a slip: the keys are served while the picker is closed
handleKeypressAlways(s, key) == keySwitch(s, key)

handleKeypress(s, key) ==
    IF ~s.isOpen THEN s ELSE keySwitch(s, key)

\* PhoneNumberField.checkValidity: the verdict and the field it leaves
fieldCheckValidity(s) ==
    IF isValid(s.asYouType)
    THEN IF mobileOnly /\ getNumber(s.asYouType).type /= "MOBILE"
         THEN [ok |-> FALSE,
               s |-> [s EXCEPT !.customValidity = "Invalid mobile number"]]
         ELSE [ok |-> TRUE, s |-> s]
    ELSE [ok |-> FALSE,
          s |-> [s EXCEPT !.customValidity = "Invalid phone number"]]

\* PhoneNumberElement.checkValidity: HTMLInputElement.checkValidity fails
\* while a custom validity message is attached to the element
checkValidity(s) ==
    IF s.customValidity /= "" THEN [ok |-> FALSE, s |-> s]
    ELSE fieldCheckValidity(s)

\* ------------------------------------------------------------------- Init
\* values the host field may carry when the widget is constructed
InitialValues == {<<>>, <<"+", "1", "1">>}

\* the constructor, lines 27-54
Init ==
    /\ defaultCountryCode \in {NoCountry, RegionCodes[1]}
    /\ mobileOnly \in BOOLEAN
    /\ \E value \in InitialValues :
         LET a == IF value = <<>> THEN AsYouType(defaultCountryCode)
                  ELSE input(AsYouType(defaultCountryCode), value)
         IN /\ asYouType = a
            /\ editText = IF value = <<>> THEN <<>> ELSE formattedOutput(a)
            /\ hostValue = IF value = <<>> THEN <<>>
                           ELSE Coalesce(getNumberValue(a), value)
            /\ openerFlag = IF value = <<>> THEN NoCountry ELSE getCountry(a)
    /\ caret = 0
    /\ customValidity = ""
    /\ isOpen = FALSE
    /\ isPristine = TRUE
    /\ cleanup = FALSE
    /\ cleanupCalls = 0
    /\ selected = {}
    /\ ariaExpanded = FALSE
    /\ hasFocus = FALSE
    /\ focusClass = FALSE
    /\ ariaBusy = FALSE
    /\ domFocus = FALSE
    /\ leaked = FALSE
    /\ caretTimers = 0
    /\ blurTimers = 0
    /\ notified = <<>>
    /\ last = "constructor"
    /\ arrowDowns = -1

\* ---------------------------------------------------------------- actions
\* characters the user types into the edit field, texts the user pastes
TypedChars == {"+", "0", "1"}

PasteTexts == {<<" ">>, <<"0", "1">>, <<"+", "2", "1">>}

\* the keys of the last case of handleKeypress that the user presses
DigitKeys == {"+", "0", "1"}

\* offsets in the text at which the user edits: its start and its end
EditOffsets(text) == {0, Len(text)}

\* what the browser leaves in the edit field after the user typed a
\* character, deleted one, deleted all, or replaced all by a pasted text
TypeEdits ==
    {[text |-> SubSeq(editText, 1, p) \o <<c>> \o SubSeq(editText, p + 1, Len(editText)),
      offset |-> p + 1] : c \in TypedChars, p \in EditOffsets(editText)}

BackspaceEdits ==
    {[text |-> SubSeq(editText, 1, p - 1) \o SubSeq(editText, p + 1, Len(editText)),
      offset |-> p - 1] : p \in EditOffsets(editText) \ {0}}

ClearEdits == IF editText = <<>> THEN {} ELSE {[text |-> <<>>, offset |-> 0]}

PasteEdits == {[text |-> text, offset |-> Len(text)] : text \in PasteTexts}

Edits == TypeEdits \cup BackspaceEdits \cup ClearEdits \cup PasteEdits

\* the input event the browser sends after it changed the edit field to
\* innerText and left the caret at offset
Input(innerText, offset) ==
    /\ CountDigits(innerText) <= MaxDigits
    /\ Becomes(handleInput(cur, innerText, offset))
    /\ last' = "handleInput"
    /\ UNCHANGED arrowDowns

TypeChar == \E e \in TypeEdits : Input(e.text, e.offset)

Backspace == \E e \in BackspaceEdits : Input(e.text, e.offset)

ClearAll == \E e \in ClearEdits : Input(e.text, e.offset)

Paste == \E e \in PasteEdits : Input(e.text, e.offset)

UserFocus ==
    /\ ~domFocus
    /\ Becomes(focus(cur))
    /\ last' = "handleFocus"
    /\ UNCHANGED arrowDowns

\* handleBlur, lines 114-123: only schedules the follow-up
UserBlur ==
    /\ domFocus
    /\ blurTimers < MaxTimers
    /\ Becomes([cur EXCEPT !.domFocus = FALSE, !.blurTimers = @ + 1])
    /\ last' = "handleBlur"
    /\ UNCHANGED arrowDowns

\* the follow-up of handleBlur, lines 116-121
BlurTimeout ==
    /\ blurTimers > 0
    /\ LET s == [cur EXCEPT !.blurTimers = @ - 1]
       IN Becomes(IF s.hasFocus
                  THEN dispatchEvent([s EXCEPT !.ariaBusy = FALSE,
                                               !.focusClass = FALSE,
                                               !.hasFocus = FALSE], "blur")
                  ELSE s)
    /\ last' = "handleBlur timeout"
    /\ UNCHANGED arrowDowns

\* the follow-up of setInternationalCode, lines 244-246
CaretTimeout ==
    /\ caretTimers > 0
    /\ Becomes(setCaretToEnd([cur EXCEPT !.caretTimers = @ - 1]))
    /\ last' = "setInternationalCode timeout"
    /\ UNCHANGED arrowDowns

ClickOpener ==
    /\ Becomes(handleClick(cur, "opener", 0))
    /\ last' = "handleClick"
    /\ arrowDowns' = IF selected' = {} THEN 0 ELSE -1

\* the rows are on display only while the picker is open
ClickRowOf(row) ==
    /\ isOpen
    /\ caretTimers < MaxTimers
    /\ Becomes(handleClick(cur, "row", row))
    /\ last' = "handleClick row"
    /\ arrowDowns' = -1

ClickRow == \E row \in 1..NumRegions : ClickRowOf(row)

ClickOther ==
    /\ Becomes(handleClick(cur, "other", 0))
    /\ last' = "handleClick"
    /\ arrowDowns' = -1

KeyEnter ==
    /\ isOpen /\ selected /= {} => caretTimers < MaxTimers
    /\ Becomes(handleKeypress(cur, "Enter"))
    /\ last' = "handleKeypress Enter"
    /\ arrowDowns' = IF isOpen' THEN arrowDowns ELSE -1

KeyEscape ==
    /\ Becomes(handleKeypress(cur, "Escape"))
    /\ last' = "handleKeypress"
    /\ arrowDowns' = -1

KeyArrowUp ==
    /\ Becomes(handleKeypress(cur, "ArrowUp"))
    /\ last' = "handleKeypress ArrowUp"
    /\ arrowDowns' = -1

KeyArrowDown ==
    /\ Becomes(handleKeypress(cur, "ArrowDown"))
    /\ last' = "handleKeypress"
    /\ arrowDowns' = IF isOpen /\ arrowDowns >= 0 /\ arrowDowns <= NumRegions
                     THEN arrowDowns + 1 ELSE -1

KeyDigitOf(key) ==
    /\ Becomes(handleKeypress(cur, key))
    /\ last' = "handleKeypress"
    /\ arrowDowns' = -1

KeyDigit == \E key \in DigitKeys : KeyDigitOf(key)

KeyOther ==
    /\ Becomes(handleKeypress(cur, "Tab"))
    /\ last' = "handleKeypress"
    /\ UNCHANGED arrowDowns

CheckValidity ==
    /\ Becomes(checkValidity(cur).s)
    /\ last' = IF checkValidity(cur).ok THEN "checkValidity true"
               ELSE "checkValidity false"
    /\ UNCHANGED arrowDowns

\* Editing and picking: the input, click and keydown events and the
\* follow-up of a commit.  mobileOnly is read by checkValidity only.
Next ==
    \/ TypeChar
    \/ Backspace
    \/ ClearAll
    \/ Paste
    \/ CaretTimeout
    \/ ClickOpener
    \/ ClickRow
    \/ ClickOther
    \/ KeyEnter
    \/ KeyEscape
    \/ KeyArrowUp
    \/ KeyArrowDown
    \/ KeyDigit
    \/ KeyOther

InitEditing == Init /\ ~mobileOnly

Spec == InitEditing /\ [][Next]_vars

\* Picking: the click and keydown events and the follow-up of a commit, on
\* the texts the constructor, a paste and the deletion of all text leave.
NextPicker ==
    \/ Paste
    \/ ClearAll
    \/ CaretTimeout
    \/ ClickOpener
    \/ ClickRow
    \/ ClickOther
    \/ KeyEnter
    \/ KeyEscape
    \/ KeyArrowUp
    \/ KeyArrowDown
    \/ KeyDigit
    \/ KeyOther

SpecPicker == InitEditing /\ [][NextPicker]_vars

\* Validation: checkValidity between edits and commits.
NextValidity ==
    \/ TypeChar
    \/ Backspace
    \/ ClearAll
    \/ Paste
    \/ ClickOpener
    \/ ClickRow
    \/ ClickOther
    \/ CheckValidity

SpecValidity == Init /\ [][NextValidity]_vars

\* Focus: the focus and blur events between clicks and keys.
NextFocus ==
    \/ UserFocus
    \/ UserBlur
    \/ BlurTimeout
    \/ CaretTimeout
    \/ ClickOpener
    \/ ClickRow
    \/ ClickOther
    \/ KeyEnter
    \/ KeyDigit

SpecFocus == Init /\ [][NextFocus]_vars

\* ------------------------------------------------------------ properties
\* the formatter after a reset and a feed of text
ReFed(text) == input(reset(asYouType), text)

CountOf(events, type) == Len(SelectSeq(events, LAMBDA e : e = type))

\* a step that commits a row: a click on the row, or Enter on a highlight
Commits ==
    \/ \E row \in 1..NumRegions : ClickRowOf(row)
    \/ isOpen /\ selected /= {} /\ KeyEnter

\* C1: an input event that leaves the edit field empty sets isPristine and
\* empties the value of the host field, whatever held before.
C1_EmptyReset ==
    [][Input(<<>>, 0) => isPristine' /\ hostValue' = <<>>]_vars

\* C2: with no default region and a pristine field, an edit whose text is
\* "0" followed by R leaves the display text, the host value and the region
\* that resetting the formatter and feeding it "+" followed by R gives.
C2_PristineTransition ==
    [][\A e \in Edits :
          /\ Input(e.text, e.offset)
          /\ defaultCountryCode = NoCountry
          /\ isPristine
          /\ StartsWith(e.text, "0")
          => /\ editText' = formattedOutput(ReFed(<<"+">> \o Tail(e.text)))
             /\ hostValue'
                  = Coalesce(getNumberValue(ReFed(<<"+">> \o Tail(e.text))), <<>>)
             /\ getCountry(asYouType')
                  = getCountry(ReFed(<<"+">> \o Tail(e.text)))]_vars

\* C3: after a commit the formatter has been reset and fed the new display
\* text, and the host value and the detected region are those of that text.
C3_CommitReenters ==
    [][Commits
          => /\ asYouType' = ReFed(editText')
             /\ hostValue' = Coalesce(getNumberValue(ReFed(editText')), <<>>)
             /\ isValid(asYouType') = isValid(ReFed(editText'))]_vars

\* C4: in every reachable state the display text is the output of the
\* formatter for what it was fed since its last reset.
C4_DisplayIsFormatterOutput == editText = formattedOutput(asYouType)

\* C5: checkValidity() returns true exactly when the formatter reports a
\* valid number and, with mobile-only, a number of type MOBILE.
FormatterAccepts ==
    /\ isValid(asYouType)
    /\ mobileOnly => getNumber(asYouType).type = "MOBILE"

C5_CheckValidity ==
    /\ last = "checkValidity true" => FormatterAccepts
    /\ last = "checkValidity false" => ~FormatterAccepts

\* C6: while the picker is closed no position subscription is running.
C6_NoDanglingSubscription == ~isOpen => ~Active(cur)

\* C7: a teardown function is invoked exactly once for each open(): never
\* a second time, and never left out once the picker is closed again.
C7_TeardownExactlyOnce ==
    /\ cleanupCalls <= 1
    /\ ~leaked
    /\ ~isOpen /\ cleanup => cleanupCalls = 1

\* C8: an edit applied with the caret at the end of the text leaves the
\* caret at the end of the new display text.
C8_CaretEndPinning ==
    [][\A e \in Edits :
          Input(e.text, e.offset) /\ e.text /= <<>> /\ e.offset = Len(e.text)
          => caret' = Len(editText')]_vars

\* C9 as claimed: NumRegions presses of ArrowDown from no highlight leave
\* the first row highlighted.
C9_WrapAroundCount == arrowDowns = NumRegions => selected = {1}

\* C9 as amended: NumRegions presses of ArrowDown from no highlight leave
\* the last row highlighted, and one more press returns to the first row.
C9_ArrowDownCount ==
    /\ arrowDowns = NumRegions => selected = {NumRegions}
    /\ arrowDowns = NumRegions + 1 => selected = {1}

C9_Witness ==
    /\ isOpen
    /\ last = "handleKeypress"
    /\ arrowDowns = NumRegions
    /\ selected = {NumRegions}

\* C10: a "+" or digit key pressed while the picker is open closes the
\* picker and runs the key through the editing engine: the formatter holds
\* the key alone and agrees with the display text, the host value is the
\* formatter's, and one input event went to the host field.
C10_DigitWhileOpen ==
    [][\A key \in DigitKeys :
          isOpen /\ KeyDigitOf(key)
          => /\ ~isOpen'
             /\ asYouType'.digits \in {<<>>, <<key>>}
             /\ asYouType' = ReFed(editText')
             /\ editText' = formattedOutput(asYouType')
             /\ hostValue' = Coalesce(getNumberValue(asYouType'), <<>>)
             /\ CountOf(notified', "input") = 1]_vars

C10_Witness ==
    /\ last = "handleKeypress"
    /\ ~isOpen
    /\ CountOf(notified, "input") = 1
    /\ asYouType.digits /= <<>>
    /\ hostValue = <<"+">> \o asYouType.digits

\* C11: isPristine becomes true again only when the field becomes empty;
\* opening the picker on a non-empty field leaves it as it was.
C11_PristineOnlyWhenEmpty ==
    [][~isPristine /\ isPristine' => editText' = <<>>]_vars

\* C12: when the follow-up of handleBlur runs after the edit field regained
\* the focus, no blur event goes to the host field and the widget stays in
\* its focused state.
C12_TransientBlur ==
    [][BlurTimeout /\ domFocus
          => /\ hasFocus' /\ focusClass'
             /\ CountOf(notified', "blur") = 0]_vars

\* C13: while open, ArrowDown highlights the next row, and the first row
\* after the last one or after no highlight; ArrowUp highlights the previous
\* row, and the last row before the first one or before no highlight.
TheSelected == CHOOSE row \in selected : TRUE

C14_EnterWhileOpen ==
    [][isOpen /\ KeyEnter
          => IF selected /= {}
             THEN /\ ~isOpen'
                  /\ openerFlag' = codeCountryMap[TheSelected].countryCode
                  /\ editText' = <<"+", codeCountryMap[TheSelected].callingCode>>
                                    \o getNumber(asYouType).nationalNumber
             ELSE /\ isOpen'
                  /\ cleanup' /\ cleanupCalls' = 0
                  /\ UNCHANGED <<editText, hostValue, isPristine>>]_vars

C14_Witness ==
    /\ last = "handleKeypress Enter"
    /\ isOpen
    /\ selected = {}
    /\ Subscribed(cur)

\* C15: a keydown event that arrives while the picker is closed changes
\* nothing of the widget and dispatches no event.
KeyDown ==
    \/ KeyEnter
    \/ KeyEscape
    \/ KeyArrowUp
    \/ KeyArrowDown
    \/ KeyDigit
    \/ KeyOther

C15_KeysWhileClosed ==
    [][~isOpen /\ KeyDown
          => /\ UNCHANGED <<isOpen, selected, isPristine, editText, asYouType,
                            hostValue, cleanupCalls, openerFlag>>
             /\ notified' = <<>>]_vars

C15_Witness ==
    /\ last = "handleKeypress Enter"
    /\ ~isOpen
    /\ caretTimers = 0
    /\ selected /= {}
    /\ editText /= <<>>

\* C16: open() drops the highlight of an earlier open period and highlights
\* the row of the region the formatter detects, or no row when it detects
\* none.
C16_OpenHighlight ==
    [][ClickOpener
          => selected' = IF RowOfCountry(getCountry(asYouType)) /= 0
                         THEN {RowOfCountry(getCountry(asYouType))}
                         ELSE {}]_vars

C16_Witness ==
    /\ last = "handleClick"
    /\ isOpen
    /\ getCountry(asYouType) = RegionCodes[2]
    /\ selected = {2}

\* C17: a click on a row leaves the display text, the picker, the
\* subscription, the host value and isPristine as highlighting that row and
\* pressing Enter would.
C17_ClickIsEnter ==
    [][\A row \in 1..NumRegions :
          isOpen /\ ClickRowOf(row)
          => LET viaEnter == handleKeypress(selectElement(cur, row), "Enter")
             IN /\ editText' = viaEnter.editText
                /\ isOpen' = viaEnter.isOpen /\ ~isOpen'
                /\ cleanup' = viaEnter.cleanup
                /\ cleanupCalls' = viaEnter.cleanupCalls /\ cleanupCalls' > 0
                /\ hostValue' = viaEnter.hostValue
                /\ isPristine' = viaEnter.isPristine
                /\ openerFlag' = viaEnter.openerFlag]_vars

C17_Witness ==
    /\ last = "handleClick row"
    /\ ~isOpen
    /\ ~Subscribed(cur)
    /\ editText = <<"+", "2", "1">>
    /\ openerFlag = RegionCodes[2]

\* C18: a digit typed while the picker is open on the display text T leaves
\* the formatter fed with the digits of T followed by that digit.
C18_DigitKeepsText ==
    [][\A key \in DigitKeys \cap Digits :
          isOpen /\ CountDigits(editText) > 0 /\ KeyDigitOf(key)
          => asYouType'.digits = SelectSeq(editText, IsDigit) \o <<key>>]_vars

\* C19: at most one row carries the highlight, and aria-expanded of the
\* text box says whether the picker is open.
C19_OneHighlight ==
    /\ Cardinality(selected) <= 1
    /\ ariaExpanded = isOpen

C19_Witness ==
    /\ isOpen
    /\ ariaExpanded
    /\ last = "handleKeypress"
    /\ arrowDowns = 2
    /\ selected = {2}

====
